---- MODULE Spec2Model ----
(***************************************************************************)
(* A model of influxstats/metrics.py: the CLIENTS registry (get_client),   *)
(* the tagging StatsClient (emission through get_metric, extra_tags,       *)
(* with_extra_tags) and the measure_function wrapper.                      *)
(*                                                                         *)
(* Python dicts are objects: the model keeps them in a heap, and an        *)
(* emitter's `tags` attribute is a reference into it, so that aliasing     *)
(* (two holders of one dict) and rebinding (obj.tags = tags_orig) are      *)
(* what they are in the program.  A dict is a sequence of <<key, value>>   *)
(* pairs with distinct keys, in insertion order.                           *)
(***************************************************************************)
EXTENDS Integers, Sequences, FiniteSets, TLC

VARIABLES
    heap,      \* dict objects: reference -> dict
    objs,      \* StatsClient instances: id -> [tags: reference, kw: options]
    CLIENTS,   \* metrics.CLIENTS: cache key -> instance id
    udict,     \* a dict the calling code keeps a reference to (0: none)
    stack,     \* open with-blocks of the sequential caller, innermost last
    exc,       \* the exception in flight ("none" when there is none)
    out,       \* what the last step sent to the underlying client, in order
    last,      \* the last operation: its arguments, result and pre-state
    seen,      \* get_client argument tuples -> instance last returned for them
    kept,      \* an emission method the caller looked up and kept: m = e.incr
    th         \* the threads of the concurrent scenarios

vars == <<heap, objs, CLIENTS, udict, stack, exc, out, last, seen, kept, th>>

----------------------------------------------------------------------------
(* Bounds of the model *)

MaxObjs == 3
MaxDepth == 2

----------------------------------------------------------------------------
(* Python dict operations on ordered key/value sequences *)

DictKeys(d) == {d[i][1] : i \in DOMAIN d}

DictGet(d, k) == (CHOOSE i \in DOMAIN d : d[i][1] = k)

\* d[k] = v : an existing key keeps its position, a new key goes last
DictSet(d, k, v) ==
    IF k \in DictKeys(d)
    THEN [i \in DOMAIN d |-> IF d[i][1] = k THEN <<k, v>> ELSE d[i]]
    ELSE Append(d, <<k, v>>)

RECURSIVE DictUpdate(_, _)
\* d.update(u)
DictUpdate(d, u) ==
    IF u = <<>> THEN d
    ELSE DictUpdate(DictSet(d, Head(u)[1], Head(u)[2]), Tail(u))

\* the mapping a dict denotes, whatever its insertion order
AsMapping(d) == {d[i] : i \in DOMAIN d}

----------------------------------------------------------------------------
(* get_tags_string and the name get_metric's wrapper composes *)

RECURSIVE get_tags_string(_)
get_tags_string(tags) ==
    IF tags = <<>> THEN ""
    ELSE IF Len(tags) = 1 THEN tags[1][1] \o "=" \o tags[1][2]
    ELSE tags[1][1] \o "=" \o tags[1][2] \o "," \o get_tags_string(Tail(tags))

\* the dict string-formatted by the wrapper: tags.copy() updated with name
metric_tags(tags, name) == DictUpdate(tags, << <<"name", name>> >>)

\* full_name = f"{metric},{tags_s}"
get_metric(metric, tags, name) ==
    metric \o "," \o get_tags_string(metric_tags(tags, name))

----------------------------------------------------------------------------
(* get_cache_key: sha256(json.dumps([args, kwargs])).  The digest is taken  *)
(* as injective on the serialization, so the key is the JSON text itself.  *)

JsonStr(s) == "\"" \o s \o "\""

RECURSIVE JsonItems(_, _)
\* the "k": v items of a dict, in the dict's own order
JsonItems(d, isTagDict) ==
    IF d = <<>> THEN ""
    ELSE LET v == IF d[1][1] = "tags" /\ ~isTagDict
                  THEN "{" \o JsonItems(d[1][2], TRUE) \o "}"
                  ELSE JsonStr(d[1][2])
             item == JsonStr(d[1][1]) \o ": " \o v
         IN IF Len(d) = 1 THEN item
            ELSE item \o ", " \o JsonItems(Tail(d), isTagDict)

json_dumps(args, kwargs) ==
    "[" \o JsonStr(args) \o ", {" \o JsonItems(kwargs, FALSE) \o "}]"

\* a key that depends on more than its arguments: on the instances built
get_cache_key_salted(args, kwargs) ==
    json_dumps(args, kwargs) \o ToString(Len(objs))

\* a key that leaves the options out
get_cache_key_module_only(args, kwargs) == json_dumps(args, <<>>)

get_cache_key(args, kwargs) == json_dumps(args, kwargs)

----------------------------------------------------------------------------
(* The decorated functions: __name__, __qualname__ split at its dots, and  *)
(* the class in whose body the function was defined ("" for none).         *)

Fns == {
    [name |-> "f",          qual |-> <<"f">>,                       cls |-> ""],
    [name |-> "wrapped_fn", qual |-> <<"TestClass", "wrapped_fn">>, cls |-> "TestClass"],
    [name |-> "inner",      qual |-> <<"outer", "<locals>", "inner">>, cls |-> ""],
    [name |-> "c",          qual |-> <<"a", "<locals>", "b", "<locals>", "c">>, cls |-> ""],
    [name |-> "K",          qual |-> <<"K", "K">>,                  cls |-> "K"] }

RECURSIVE JoinDots(_)
JoinDots(segs) ==
    IF Len(segs) = 1 THEN segs[1]
    ELSE segs[1] \o "." \o JoinDots(Tail(segs))

\* qualname.split(".<locals>.", 1)[-1]
AfterFirstLocals(segs) ==
    LET is == {i \in 2..(Len(segs) - 1) : segs[i] = "<locals>"}
    IN IF is = {} THEN segs
       ELSE LET i == CHOOSE j \in is : \A k \in is : j <= k
            IN SubSeq(segs, i + 1, Len(segs))

\* x.rsplit(".", 1)[0]
BeforeLastDot(segs) ==
    IF Len(segs) = 1 THEN segs ELSE SubSeq(segs, 1, Len(segs) - 1)

get_methods_classname(fn) == JoinDots(BeforeLastDot(AfterFirstLocals(fn.qual)))

\* measurement tags in which the decorator's extra_tags come before def
measure_tags_extra_first(fn, extra) ==
    LET t1 == DictUpdate(extra, << <<"def", fn.name>> >>)
        fn_clsname == get_methods_classname(fn)
    IN IF fn_clsname # t1[DictGet(t1, "def")][2]
       THEN DictUpdate(t1, << <<"class", fn_clsname>> >>)
       ELSE t1

\* the extra_tags dict the wrapper builds before it opens its scope
measure_tags(fn, extra) ==
    LET t1 == DictUpdate(<< <<"def", fn.name>> >>, extra)
        fn_clsname == get_methods_classname(fn)
    IN IF fn_clsname # t1[DictGet(t1, "def")][2]
       THEN DictUpdate(t1, << <<"class", fn_clsname>> >>)
       ELSE t1

----------------------------------------------------------------------------
(* Inputs the operations are called with *)

Services == {"s1", "s2"}
Modules == {"m1", "m2"}

\* transport options, as the keyword arguments are written at the call
KwChoices == { <<>>,
               << <<"host", "h1">>, <<"prefix", "p1">> >>,
               << <<"prefix", "p1">>, <<"host", "h1">> >> }

TagMaps == { << <<"a", "1">> >>,
             << <<"b", "2">>, <<"a", "3">> >>,
             << <<"name", "n">> >> }

\* the Tag Sets an emitter is built with
InitTags == { <<>>,
              << <<"module", "m">>, <<"service", "s">> >>,
              << <<"a", "0">>, <<"name", "x">>, <<"c", "1">> >>,
              << <<"def", "amb">>, <<"q", "1">> >> }

\* the Tag Sets of the emitter measured functions are decorated with
MeasureInitTags == { << <<"module", "m">>, <<"service", "s">> >>,
                     << <<"def", "amb">>, <<"q", "1">> >> }

\* emission calls: the method, the name, the other arguments and whether
\* the underlying client raises
EmitCalls == {
    [op |-> "incr",  name |-> "fool", args |-> <<>>,  ok |-> TRUE],
    [op |-> "incr",  name |-> "fool", args |-> <<5>>, ok |-> TRUE],
    [op |-> "gauge", name |-> "fool", args |-> <<7>>, ok |-> TRUE],
    [op |-> "incr",  name |-> "shoes", args |-> <<>>, ok |-> FALSE] }

Errors == {"ValueError"}
Results == {"r1", "r2"}

----------------------------------------------------------------------------
(* The heap of dicts.  A dict nothing refers to any more is gone. *)

Refs == 1..(MaxObjs + MaxDepth + 4)

NewRef(h) == CHOOSE r \in Refs \ DOMAIN h : \A q \in Refs \ DOMAIN h : r <= q

Roots(os, st, u, t) ==
    {os[i].tags : i \in DOMAIN os}
        \cup {st[i].orig : i \in DOMAIN st}
        \cup ({u} \ {0})
        \cup ({t[i].orig : i \in DOMAIN t} \ {0})
        \cup ({t[i].ref : i \in DOMAIN t} \ {0})
        \cup ({kept.tags} \ {0})

Collect(h, os, st, u, t) ==
    [r \in DOMAIN h \cap Roots(os, st, u, t) |-> h[r]]

Store(h, r, d) == [q \in DOMAIN h \cup {r} |-> IF q = r THEN d ELSE h[q]]

\* the Tag Set of instance o
Tags(o) == heap[objs[o].tags]

Top == stack[Len(stack)]

Pop(st) == SubSeq(st, 1, Len(st) - 1)

\* one call of an emission method reaching the underlying client
Sent(o, op, full, args, ok) ==
    [obj |-> o, op |-> op, name |-> full, args |-> args, ok |-> ok]

NoThreads == <<>>

\* no method kept
NoMethod == [obj |-> 0, op |-> "", tags |-> 0]

Init ==
    /\ heap = <<>>
    /\ objs = <<>>
    /\ CLIENTS = <<>>
    /\ udict = 0
    /\ stack = <<>>
    /\ exc = "none"
    /\ out = <<>>
    /\ last = [op |-> "init"]
    /\ seen = <<>>
    /\ kept = NoMethod
    /\ th = NoThreads

----------------------------------------------------------------------------
(* The calling code makes a dict and keeps it: d = {...} *)

UserDict(T) ==
    /\ exc = "none"
    /\ udict = 0
    /\ udict' = NewRef(heap)
    /\ heap' = Store(heap, NewRef(heap), T)
    /\ out' = <<>>
    /\ last' = [op |-> "dict"]
    /\ UNCHANGED <<objs, CLIENTS, stack, exc, seen, kept, th>>

\* how a call passes tags=: not at all, a dict literal, or the kept dict
NoTagsArg == [how |-> "none", val |-> <<>>]

TagArgs == {NoTagsArg, [how |-> "ref", val |-> <<>>]}
               \cup {[how |-> "lit", val |-> T] : T \in TagMaps}

----------------------------------------------------------------------------
(* get_client(service, module, **kwargs), run by one caller at a time *)

MaxCalls == 3
MaxClients == 2

\* the arguments of a call as values: the options as a mapping
CallArgs(service, module, kw, hasTags, tagsVal) ==
    <<service, module, AsMapping(kw),
      IF hasTags THEN {AsMapping(tagsVal)} ELSE {}>>

\* a registry that records the instance even when its constructor raised
clients_after_always(C, key, id, constructed) == Store(C, key, id)

\* CLIENTS[cache_key] = statsd_client is reached only when the constructor
\* has returned
clients_after(C, key, id, constructed) ==
    IF constructed THEN Store(C, key, id) ELSE C

GetClient(service, module, kw, targ, ctorOk) ==
    LET hasTags == targ.how # "none"
        \* the dict object passed as tags=
        argRef == IF targ.how = "ref" THEN udict ELSE NewRef(heap)
        heap0 == IF targ.how = "lit" THEN Store(heap, argRef, targ.val) ELSE heap
        kwargs == IF hasTags THEN Append(kw, <<"tags", heap0[argRef]>>) ELSE kw
        cache_key == get_cache_key(module, kwargs)
        hit == cache_key \in DOMAIN CLIENTS
        \* tags = kwargs.pop("tags", {}); tags.update({module, service})
        tagsRef == IF hasTags THEN argRef ELSE NewRef(heap)
        tags0 == IF hasTags THEN heap0[argRef] ELSE <<>>
        heap1 == Store(heap0, tagsRef,
                       DictUpdate(tags0, << <<"module", module>>,
                                            <<"service", service>> >>))
        id == Len(objs) + 1
        args == CallArgs(service, module, kw, hasTags, tags0)
        prev == IF args \in DOMAIN seen THEN seen[args] ELSE 0
        \* the call before this one failed on the same key and was caught
        retry == last.op = "catch" /\ last.key = cache_key
    IN
    /\ exc = "none"
    /\ targ.how = "ref" => udict # 0
    /\ args \in DOMAIN seen \/ Cardinality(DOMAIN seen) < MaxCalls
    /\ IF hit
       THEN /\ ctorOk
            /\ UNCHANGED <<objs, CLIENTS, exc>>
            /\ heap' = Collect(heap0, objs, stack, udict, th)
            /\ seen' = Store(seen, args, CLIENTS[cache_key])
            /\ last' = [op |-> "get_client", args |-> args, key |-> cache_key,
                        ret |-> CLIENTS[cache_key], built |-> FALSE, prev |-> prev,
                        retry |-> retry, how |-> targ.how, kw |-> kw]
       ELSE IF ctorOk
       THEN /\ Len(objs) < MaxClients
            /\ objs' = Append(objs, [tags |-> tagsRef, kw |-> kw])
            /\ CLIENTS' = clients_after(CLIENTS, cache_key, id, TRUE)
            /\ heap' = Collect(heap1, objs', stack, udict, th)
            /\ seen' = Store(seen, args, id)
            /\ last' = [op |-> "get_client", args |-> args, key |-> cache_key,
                        ret |-> id, built |-> TRUE, prev |-> prev,
                        retry |-> retry, how |-> targ.how, kw |-> kw]
            /\ UNCHANGED exc
       ELSE \* StatsClient(tags=tags, **kwargs) raises
            /\ exc' = "CtorError"
            /\ heap' = Collect(heap1, objs, stack, udict, th)
            /\ last' = [op |-> "get_client", args |-> args, key |-> cache_key,
                        ret |-> 0, built |-> FALSE, prev |-> prev,
                        retry |-> retry, how |-> targ.how, kw |-> kw]
            /\ CLIENTS' = clients_after(CLIENTS, cache_key, id, FALSE)
            /\ UNCHANGED <<objs, seen>>
    /\ out' = <<>>
    /\ UNCHANGED <<udict, kept, stack, th>>

----------------------------------------------------------------------------
(* StatsClient(tags=...) called directly *)

Construct(targ) ==
    LET hasTags == targ.how # "none"
        tagsRef == IF targ.how = "ref" THEN udict ELSE NewRef(heap)
        heap1 == IF targ.how = "ref" THEN heap ELSE Store(heap, tagsRef, targ.val)
    IN
    /\ exc = "none"
    /\ targ.how = "ref" => udict # 0
    /\ Len(objs) < MaxObjs
    /\ objs' = Append(objs, [tags |-> tagsRef, kw |-> <<>>])
    /\ heap' = heap1
    /\ out' = <<>>
    /\ last' = [op |-> "construct", ret |-> Len(objs) + 1]
    /\ UNCHANGED <<CLIENTS, udict, kept, stack, exc, seen, th>>

----------------------------------------------------------------------------
(* client.<op>(name, *args): __getattribute__ wraps the method with        *)
(* get_metric(fn, self.tags) and the wrapper calls the underlying method   *)

\* what the wrapper passes on for instance o
Emission(o, op, name, args, ok) ==
    Sent(o, op, get_metric(op, Tags(o), name), args, ok)

Emit(o, op, name, args, ok) ==
    /\ exc = "none"
    /\ out' = << Emission(o, op, name, args, ok) >>
    /\ exc' = IF ok THEN "none" ELSE "EmitError"
    /\ last' = [op |-> "emit", obj |-> o, metric |-> op, name |-> name,
                args |-> args]
    /\ UNCHANGED <<heap, objs, CLIENTS, udict, kept, stack, seen, th>>

\* m = client.<op>: __getattribute__ returns get_metric(fn, self.tags), a
\* wrapper closed over the dict that self.tags is at this moment
Lookup(o, op) ==
    /\ exc = "none"
    /\ kept = NoMethod
    /\ kept' = [obj |-> o, op |-> op, tags |-> objs[o].tags]
    /\ out' = <<>>
    /\ last' = [op |-> "lookup", obj |-> o, depth |-> Len(stack)]
    /\ UNCHANGED <<heap, objs, CLIENTS, udict, stack, exc, seen, th>>

\* m(name, *args): the wrapper copies the dict it was closed over
CallKept(name, args) ==
    /\ exc = "none"
    /\ kept # NoMethod
    /\ out' = << Sent(kept.obj, kept.op,
                      get_metric(kept.op, heap[kept.tags], name), args, TRUE) >>
    /\ last' = [op |-> "call_kept", obj |-> kept.obj, metric |-> kept.op,
                name |-> name, args |-> args]
    /\ UNCHANGED <<heap, objs, CLIENTS, udict, stack, exc, seen, kept, th>>

----------------------------------------------------------------------------
(* client.with_extra_tags(tags) *)

\* a merge in which the receiver's tags win
all_tags_receiver_wins(o, T) == DictUpdate(T, Tags(o))

\* all_tags = self.tags.copy(); all_tags.update(tags)
all_tags(o, T) == DictUpdate(Tags(o), T)

\* a derivation that hands the receiver's own dict to the new instance
all_tags_ref_shared(h, o) == objs[o].tags

\* self.tags.copy() is a new dict object
all_tags_ref(h, o) == NewRef(h)

WithExtraTags(o, T) ==
    /\ exc = "none"
    /\ Len(objs) < MaxObjs
    /\ objs' = Append(objs, [tags |-> all_tags_ref(heap, o), kw |-> <<>>])
    /\ heap' = Store(heap, all_tags_ref(heap, o), all_tags(o, T))
    /\ out' = <<>>
    /\ last' = [op |-> "with_extra_tags", recv |-> o, arg |-> T,
                ret |-> Len(objs) + 1,
                chained |-> last.op = "with_extra_tags" /\ last.ret = o,
                recv0 |-> IF last.op = "with_extra_tags" /\ last.ret = o
                          THEN last.recv ELSE 0,
                arg0 |-> IF last.op = "with_extra_tags" /\ last.ret = o
                         THEN last.arg ELSE <<>>]
    /\ UNCHANGED <<CLIENTS, udict, kept, stack, exc, seen, th>>

----------------------------------------------------------------------------
(* StatsClient.extra_tags, a context manager: the part before the yield    *)
(* runs at entry, the finally clause at every exit.                        *)

\* an entry that copies the tags after it has updated them
scope_enter_copy_late(h, os, o, T, orig) ==
    Store(Store(h, orig, DictUpdate(h[os[o].tags], T)),
          os[o].tags, DictUpdate(h[os[o].tags], T))

\* an entry that drops the class tag the Tag Set holds before it merges
scope_enter_own_class(h, os, o, T, orig) ==
    Store(Store(h, orig, h[os[o].tags]),
          os[o].tags,
          DictUpdate(SelectSeq(h[os[o].tags], LAMBDA p : p[1] # "class"), T))

\* an exit that restores nothing
scope_exit_keeps(os, o, orig) == os

\* tags_orig = obj.tags.copy(); obj.tags.update(tags): the heap afterwards
scope_enter(h, os, o, T, orig) ==
    Store(Store(h, orig, h[os[o].tags]),
          os[o].tags, DictUpdate(h[os[o].tags], T))

\* finally: obj.tags = tags_orig
scope_exit(os, o, orig) == [os EXCEPT ![o].tags = orig]

EnterScope(o, T) ==
    LET orig == NewRef(heap)
    IN
    /\ exc = "none"
    /\ Len(stack) < MaxDepth
    /\ heap' = scope_enter(heap, objs, o, T, orig)
    /\ stack' = Append(stack, [kind |-> "scope", obj |-> o, orig |-> orig,
                               entry |-> Tags(o), added |-> T,
                               timer |-> FALSE, tname |-> "", sent |-> <<>>])
    /\ out' = <<>>
    /\ last' = [op |-> "enter", obj |-> o, arg |-> T]
    /\ UNCHANGED <<objs, CLIENTS, udict, kept, exc, seen, th>>

\* the block of the innermost with-statement ends normally
ExitScope ==
    /\ exc = "none"
    /\ stack # <<>>
    /\ Top.kind = "scope"
    /\ objs' = scope_exit(objs, Top.obj, Top.orig)
    /\ stack' = Pop(stack)
    /\ heap' = Collect(heap, objs', stack', udict, th)
    /\ out' = <<>>
    /\ last' = [op |-> "exit", kind |-> "scope", how |-> "normal",
                obj |-> Top.obj, entry |-> Top.entry, exc |-> "none"]
    /\ UNCHANGED <<CLIENTS, udict, kept, exc, seen, th>>

----------------------------------------------------------------------------
(* measure_function(client, extra_tags)(fn): the wrapper *)

FnNamed(n) == CHOOSE f \in Fns : f.name = n

\* the decorations: the function and the extra_tags given to measure_function
Decorated == {
    [fn |-> FnNamed("f"),          extra |-> <<>>],
    [fn |-> FnNamed("f"),          extra |-> << <<"def", "x">> >>],
    [fn |-> FnNamed("wrapped_fn"), extra |-> << <<"foo", "one">> >>],
    [fn |-> FnNamed("inner"),      extra |-> <<>>],
    [fn |-> FnNamed("c"),          extra |-> <<>>],
    [fn |-> FnNamed("K"),          extra |-> <<>>] }

TimerClosed(o, tname) == Sent(o, "timer.__exit__", tname, <<>>, TRUE)

\* the call up to the start of fn's body: the scope is entered, calls is
\* counted and the duration timer is opened
MeasureCall(o, fn, extra, incrOk) ==
    LET orig == NewRef(heap)
        extra_tags == measure_tags(fn, extra)
        heap1 == scope_enter(heap, objs, o, extra_tags, orig)
        now == heap1[objs[o].tags]
        calls == Sent(o, "incr", get_metric("incr", now, "calls"), <<>>, incrOk)
        duration == Sent(o, "timer", get_metric("timer", now, "duration"),
                         <<>>, TRUE)
    IN
    /\ exc = "none"
    /\ Len(stack) < MaxDepth
    /\ heap' = heap1
    /\ stack' = Append(stack, [kind |-> "measure", obj |-> o, orig |-> orig,
                               entry |-> Tags(o), added |-> extra_tags,
                               timer |-> incrOk, tname |-> duration.name,
                               sent |-> IF incrOk THEN <<calls, duration>>
                                        ELSE <<>>])
    /\ out' = IF incrOk THEN <<calls, duration>> ELSE <<calls>>
    /\ exc' = IF incrOk THEN "none" ELSE "EmitError"
    /\ last' = [op |-> "measure", obj |-> o, fn |-> fn, extra |-> extra,
                entry |-> Tags(o)]
    /\ UNCHANGED <<objs, CLIENTS, udict, kept, seen, th>>

\* fn returns rv: the timer block and the scope end, the wrapper returns
Return(rv) ==
    /\ exc = "none"
    /\ stack # <<>>
    /\ Top.kind = "measure"
    /\ Top.timer
    /\ objs' = scope_exit(objs, Top.obj, Top.orig)
    /\ stack' = Pop(stack)
    /\ heap' = Collect(heap, objs', stack', udict, th)
    /\ out' = << TimerClosed(Top.obj, Top.tname) >>
    /\ last' = [op |-> "exit", kind |-> "measure", how |-> "return",
                obj |-> Top.obj, entry |-> Top.entry, exc |-> "none",
                started |-> Top.timer, opened |-> Top.tname, sent |-> Top.sent,
                added |-> Top.added,
                body |-> rv, ret |-> rv]
    /\ UNCHANGED <<CLIENTS, udict, kept, exc, seen, th>>

----------------------------------------------------------------------------
(* The arguments the wrapper calls fn with.  A function is given by its    *)
(* parameters (positional-or-keyword, then whether it takes **kw) and its  *)
(* local variables; fn.__code__.co_varnames lists the parameters and then  *)
(* the locals.                                                             *)

ArgFns == {
    [name |-> "g", qual |-> <<"g">>, cls |-> "",
     params |-> <<"x", "statsd">>, varkw |-> FALSE, locals |-> <<>>],
    [name |-> "h", qual |-> <<"h">>, cls |-> "",
     params |-> <<"x">>, varkw |-> FALSE, locals |-> <<"y">>],
    [name |-> "k", qual |-> <<"k">>, cls |-> "",
     params |-> <<"x">>, varkw |-> FALSE, locals |-> <<"statsd">>],
    [name |-> "p", qual |-> <<"p">>, cls |-> "",
     params |-> <<"x">>, varkw |-> TRUE, locals |-> <<"statsd">>] }

\* the positional and the keyword arguments of the calls
ArgLists == { <<>>, <<"v">> }
KwLists == { <<>>, << <<"x", "v">> >>, << <<"statsd", "mine">> >>,
             << <<"x", "v">>, <<"statsd", "mine">> >> }

co_varnames(fn) ==
    fn.params \o (IF fn.varkw THEN <<"kw">> ELSE <<>>) \o fn.locals

\* the emitter as an argument value
ClientValue(o) == "StatsClient#" \o ToString(o)

\* if "statsd" in fn.__code__.co_varnames: kwargs.update({"statsd": _statsd})
call_kwargs(fn, kwargs, o) ==
    IF \E i \in DOMAIN co_varnames(fn) : co_varnames(fn)[i] = "statsd"
    THEN DictUpdate(kwargs, << <<"statsd", ClientValue(o)>> >>)
    ELSE kwargs

\* fn(*args, **kwargs): the arguments bind to the parameters or the call
\* raises TypeError (too many positionals, an unexpected keyword, a
\* parameter given twice, a parameter left without a value)
Binds(fn, args, kwargs) ==
    /\ Len(args) <= Len(fn.params)
    /\ \A k \in DictKeys(kwargs) :
          \/ \E i \in DOMAIN fn.params : fn.params[i] = k /\ i > Len(args)
          \/ fn.varkw /\ \A i \in DOMAIN fn.params : fn.params[i] # k
    /\ \A i \in DOMAIN fn.params :
          i <= Len(args) \/ fn.params[i] \in DictKeys(kwargs)

\* one whole call wrapper(*args, **kwargs) of a measured function whose
\* body, once started, returns: calls is counted, the timer opened, fn
\* called with the arguments the wrapper passes, the timer closed and the
\* tags restored
WrappedCall(o, fn, args, kwargs) ==
    LET now == DictUpdate(Tags(o), measure_tags(fn, <<>>))
        calls == Sent(o, "incr", get_metric("incr", now, "calls"), <<>>, TRUE)
        duration == Sent(o, "timer", get_metric("timer", now, "duration"),
                         <<>>, TRUE)
        passed == call_kwargs(fn, kwargs, o)
    IN
    /\ exc = "none"
    /\ stack = <<>>
    /\ out' = << calls, duration, TimerClosed(o, duration.name) >>
    /\ exc' = IF Binds(fn, args, passed) THEN "none" ELSE "TypeError"
    /\ last' = [op |-> "wrapped_call", obj |-> o, fn |-> fn,
                args |-> args, kwargs |-> kwargs,
                passed_args |-> args, passed_kwargs |-> passed]
    /\ UNCHANGED <<heap, objs, CLIENTS, udict, kept, stack, seen, th>>

----------------------------------------------------------------------------
(* Exceptions: the code inside a with-block or a measured function raises; *)
(* the exception leaves the open blocks one by one until it is caught.     *)

Raise(e) ==
    /\ exc = "none"
    /\ stack # <<>>
    /\ exc' = e
    /\ out' = <<>>
    /\ last' = [op |-> "raise", exc |-> e]
    /\ UNCHANGED <<heap, objs, CLIENTS, udict, kept, stack, seen, th>>

\* an exit that swallows the exception
Unwind_swallows ==
    /\ exc # "none"
    /\ stack # <<>>
    /\ objs' = scope_exit(objs, Top.obj, Top.orig)
    /\ stack' = Pop(stack)
    /\ heap' = Collect(heap, objs', stack', udict, th)
    /\ out' = IF Top.timer THEN << TimerClosed(Top.obj, Top.tname) >> ELSE <<>>
    /\ last' = [op |-> "exit", kind |-> Top.kind, how |-> "raise",
                obj |-> Top.obj, entry |-> Top.entry, exc |-> exc,
                started |-> Top.timer, opened |-> Top.tname, sent |-> Top.sent,
                added |-> Top.added]
    /\ exc' = "none"
    /\ UNCHANGED <<CLIENTS, udict, kept, seen, th>>

\* the exception leaves the innermost block: its exit code runs
Unwind ==
    /\ exc # "none"
    /\ stack # <<>>
    /\ objs' = scope_exit(objs, Top.obj, Top.orig)
    /\ stack' = Pop(stack)
    /\ heap' = Collect(heap, objs', stack', udict, th)
    /\ out' = IF Top.timer THEN << TimerClosed(Top.obj, Top.tname) >> ELSE <<>>
    /\ last' = [op |-> "exit", kind |-> Top.kind, how |-> "raise",
                obj |-> Top.obj, entry |-> Top.entry, exc |-> exc,
                started |-> Top.timer, opened |-> Top.tname, sent |-> Top.sent,
                added |-> Top.added]
    /\ UNCHANGED <<CLIENTS, udict, kept, exc, seen, th>>

\* the calling code handles the exception.  Inside the wrapper of
\* measure_function nothing handles what incr("calls") raises: that
\* exception leaves the wrapper (Unwind) before any handler can run.
Catch ==
    /\ exc # "none"
    /\ stack # <<>> => (Top.kind # "measure" \/ Top.timer)
    /\ exc' = "none"
    /\ out' = <<>>
    /\ last' = [op |-> "catch", exc |-> exc,
                key |-> IF last.op = "get_client" THEN last.key ELSE ""]
    /\ UNCHANGED <<heap, objs, CLIENTS, udict, kept, stack, seen, th>>

----------------------------------------------------------------------------
(* The sequential programs.  One caller runs one operation at a time; each *)
(* specification lets it use one part of the interface.                    *)

Instances == DOMAIN objs

\* the registry: get_client called with transport options
NextRegistry ==
    \/ \E s \in Services, m \in Modules, kw \in KwChoices, ok \in BOOLEAN :
          GetClient(s, m, kw, NoTagsArg, ok)
    \/ Catch

SpecRegistry == Init /\ [][NextRegistry]_vars

\* the program holds one emitter, built as StatsClient(tags=T), T in S
InitWith(S) ==
    /\ \E T \in S : heap = << T >>
    /\ objs = << [tags |-> 1, kw |-> <<>>] >>
    /\ CLIENTS = <<>>
    /\ udict = 0
    /\ stack = <<>>
    /\ exc = "none"
    /\ out = <<>>
    /\ last = [op |-> "init"]
    /\ seen = <<>>
    /\ kept = NoMethod
    /\ th = NoThreads

InitEmitter == InitWith(InitTags)

\* scoped tags on the emitter, with emissions and failures inside
NextScope ==
    \/ \E o \in Instances, c \in EmitCalls : Emit(o, c.op, c.name, c.args, c.ok)
    \/ \E o \in Instances, T \in TagMaps : EnterScope(o, T)
    \/ ExitScope
    \/ \E e \in Errors : Raise(e)
    \/ Unwind
    \/ Catch

SpecScope == InitEmitter /\ [][NextScope]_vars

\* emitters derived from the emitter and from each other
NextDerive ==
    \/ \E o \in Instances, T \in TagMaps : WithExtraTags(o, T)
    \/ \E o \in Instances, c \in EmitCalls : c.ok /\ Emit(o, c.op, c.name, c.args, c.ok)

SpecDerive == InitEmitter /\ [][NextDerive]_vars

\* measured functions called on the emitter, alone and nested
NextMeasure ==
    \/ \E o \in Instances, d \in Decorated, ok \in BOOLEAN :
          MeasureCall(o, d.fn, d.extra, ok)
    \/ \E rv \in Results : Return(rv)
    \/ \E e \in Errors : Raise(e)
    \/ Unwind
    \/ Catch

InitMeasure == InitWith(MeasureInitTags)

SpecMeasure == InitMeasure /\ [][NextMeasure]_vars

\* emitters built around a dict the caller keeps: d = {...}, then
\* get_client(..., tags=d) or StatsClient(tags=d), next to get_client
\* without tags; one scoped region at a time, with emissions
BuildService == "s1"
BuildModule == "m1"
BuildDict == << <<"a", "1">> >>
BuildTags == << <<"b", "2">>, <<"a", "3">> >>

KeptDict == [how |-> "ref", val |-> <<>>]

NextBuild ==
    \/ UserDict(BuildDict)
    \/ \E targ \in {NoTagsArg, KeptDict}, ok \in BOOLEAN :
          GetClient(BuildService, BuildModule, <<>>, targ, ok)
    \/ Construct(KeptDict)
    \/ \E o \in Instances : stack = <<>> /\ EnterScope(o, BuildTags)
    \/ ExitScope
    \/ \E o \in Instances : Emit(o, "incr", "fool", <<>>, TRUE)
    \/ Catch

SpecBuild == Init /\ [][NextBuild]_vars

\* an emission method looked up once, kept and called later, with scoped
\* regions opened and left in between
NextKept ==
    \/ \E o \in Instances, op \in {"incr", "gauge"} : Lookup(o, op)
    \/ \E c \in EmitCalls : c.ok /\ CallKept(c.name, c.args)
    \/ \E o \in Instances, c \in EmitCalls : c.ok /\ Emit(o, c.op, c.name, c.args, c.ok)
    \/ \E o \in Instances, T \in TagMaps : EnterScope(o, T)
    \/ ExitScope

SpecKept == InitEmitter /\ [][NextKept]_vars

\* emitters got from the registry with transport options, and emitters
\* derived from them
NextChild ==
    \/ \E s \in Services, m \in Modules, kw \in KwChoices :
          GetClient(s, m, kw, NoTagsArg, TRUE)
    \/ \E o \in Instances, T \in TagMaps : WithExtraTags(o, T)

SpecChild == Init /\ [][NextChild]_vars

\* measured functions called with arguments
NextArgs ==
    \/ \E o \in Instances, fn \in ArgFns, args \in ArgLists, kwargs \in KwLists :
          WrappedCall(o, fn, args, kwargs)
    \/ Catch

SpecArgs == InitEmitter /\ [][NextArgs]_vars

\* holders of cached emitters: every get_client call hands out the
\* instance of its key; regions are opened and metrics emitted on them
NextShared ==
    \/ \E s \in Services, m \in Modules : GetClient(s, m, <<>>, NoTagsArg, TRUE)
    \/ \E o \in Instances, T \in TagMaps : EnterScope(o, T)
    \/ ExitScope
    \/ \E o \in Instances, c \in EmitCalls : c.ok /\ Emit(o, c.op, c.name, c.args, c.ok)

SpecShared == Init /\ [][NextShared]_vars

----------------------------------------------------------------------------
(* Threads.  Each runs                                                     *)
(*     c = get_client("s1", module)                                        *)
(*     with c.extra_tags(T): c.incr("work")                                *)
(* and the interpreter may switch threads between any two of the steps     *)
(* below: the registry lookup, the construction, the registry store, the   *)
(* read of obj.tags and the copy of the dict read, the read of obj.tags    *)
(* and the update of the dict read, the read of the method (which binds    *)
(* self.tags) and its call, and the assignment that restores obj.tags.     *)
(* Nothing in the code locks.                                              *)

MaxThreads == 2

Threads == 1..MaxThreads

\* the tags thread t opens its scope with
ThreadTags(t) == << <<"t" \o ToString(t), "1">> >>

ThreadService == "s1"

Idle == [pc |-> "start", module |-> "", key |-> "", client |-> 0,
         T |-> <<>>, orig |-> 0, ref |-> 0, snap |-> <<>>, exited |-> 0,
         base |-> <<>>]

InitThreads ==
    /\ heap = <<>>
    /\ objs = <<>>
    /\ CLIENTS = <<>>
    /\ udict = 0
    /\ stack = <<>>
    /\ exc = "none"
    /\ out = <<>>
    /\ last = [op |-> "init"]
    /\ seen = <<>>
    /\ kept = NoMethod
    /\ th = [t \in Threads |-> Idle]

Step(t, what) == [op |-> "thread"]

\* statsd_client = CLIENTS.get(cache_key)
T_Lookup(t, m) ==
    LET cache_key == get_cache_key(m, <<>>)
        hit == cache_key \in DOMAIN CLIENTS
    IN
    /\ th[t].pc = "start"
    /\ th' = [th EXCEPT ![t].module = m, ![t].key = cache_key,
                        ![t].client = IF hit THEN CLIENTS[cache_key] ELSE 0,
                        ![t].pc = IF hit THEN "got" ELSE "construct"]
    /\ out' = <<>>
    /\ last' = Step(t, "lookup")
    /\ UNCHANGED <<heap, objs, CLIENTS, udict, kept, stack, exc, seen>>

\* statsd_client = StatsClient(tags=tags, **kwargs), tags holding module, service
T_Construct(t) ==
    /\ th[t].pc = "construct"
    /\ objs' = Append(objs, [tags |-> NewRef(heap), kw |-> <<>>])
    /\ heap' = Store(heap, NewRef(heap),
                     DictUpdate(<<>>, << <<"module", th[t].module>>,
                                         <<"service", ThreadService>> >>))
    /\ th' = [th EXCEPT ![t].client = Len(objs) + 1, ![t].pc = "store"]
    /\ out' = <<>>
    /\ last' = Step(t, "construct")
    /\ UNCHANGED <<CLIENTS, udict, kept, stack, exc, seen>>

\* CLIENTS[cache_key] = statsd_client; return statsd_client
T_Store(t) ==
    /\ th[t].pc = "store"
    /\ CLIENTS' = Store(CLIENTS, th[t].key, th[t].client)
    /\ th' = [th EXCEPT ![t].pc = "got"]
    /\ out' = <<>>
    /\ last' = Step(t, "store")
    /\ UNCHANGED <<heap, objs, udict, kept, stack, exc, seen>>

\* extra_tags(T): tags_orig = obj.tags.copy(): the attribute is read first
T_ReadTags(t) ==
    /\ th[t].pc = "got"
    /\ th' = [th EXCEPT ![t].T = ThreadTags(t),
                        ![t].ref = objs[th[t].client].tags, ![t].pc = "copy"]
    /\ out' = <<>>
    /\ last' = Step(t, "read")
    /\ UNCHANGED <<heap, objs, CLIENTS, udict, kept, stack, exc, seen>>

\* tags_orig = obj.tags.copy(): the dict read is copied
T_Copy(t) ==
    LET orig == NewRef(heap)
    IN
    /\ th[t].pc = "copy"
    /\ th' = [th EXCEPT ![t].orig = orig, ![t].snap = heap[th[t].ref],
                        ![t].ref = 0, ![t].pc = "load"]
    /\ heap' = Collect(Store(heap, orig, heap[th[t].ref]),
                       objs, stack, udict, th')
    /\ out' = <<>>
    /\ last' = Step(t, "copy")
    /\ UNCHANGED <<objs, CLIENTS, udict, kept, stack, exc, seen>>

\* obj.tags.update(tags): the attribute is read first
T_Load(t) ==
    /\ th[t].pc = "load"
    /\ th' = [th EXCEPT ![t].ref = objs[th[t].client].tags, ![t].pc = "update"]
    /\ out' = <<>>
    /\ last' = Step(t, "load")
    /\ UNCHANGED <<heap, objs, CLIENTS, udict, kept, stack, exc, seen>>

\* obj.tags.update(tags): the dict read is updated
T_Update(t) ==
    /\ th[t].pc = "update"
    /\ th' = [th EXCEPT ![t].ref = 0, ![t].pc = "body"]
    /\ heap' = Collect(Store(heap, th[t].ref, DictUpdate(heap[th[t].ref], th[t].T)),
                       objs, stack, udict, th')
    /\ out' = <<>>
    /\ last' = Step(t, "update")
    /\ UNCHANGED <<objs, CLIENTS, udict, kept, stack, exc, seen>>

\* the block: c.incr("work"): the attribute incr is read first, and
\* __getattribute__ binds the dict self.tags into the method it returns
T_GetMethod(t) ==
    /\ th[t].pc = "body"
    /\ th' = [th EXCEPT ![t].ref = objs[th[t].client].tags, ![t].pc = "send"]
    /\ out' = <<>>
    /\ last' = Step(t, "getattr")
    /\ UNCHANGED <<heap, objs, CLIENTS, udict, kept, stack, exc, seen>>

\* c.incr("work"): the method is called, copies the dict bound into it and
\* sends under the name made from the copy
T_Emit(t) ==
    /\ th[t].pc = "send"
    /\ th' = [th EXCEPT ![t].ref = 0, ![t].pc = "restore"]
    /\ heap' = Collect(heap, objs, stack, udict, th')
    /\ out' = << Sent(th[t].client, "incr",
                       get_metric("incr", heap[th[t].ref], "work"), <<>>, TRUE) >>
    /\ last' = Step(t, "emit")
    /\ UNCHANGED <<objs, CLIENTS, udict, kept, stack, exc, seen>>

\* finally: obj.tags = tags_orig
T_Restore(t) ==
    /\ th[t].pc = "restore"
    /\ objs' = scope_exit(objs, th[t].client, th[t].orig)
    /\ th' = [th EXCEPT ![t].orig = 0, ![t].pc = "done",
                        ![t].exited = 1 + Cardinality({u \in Threads : th[u].pc = "done"})]
    /\ heap' = Collect(heap, objs', stack, udict, th')
    /\ out' = <<>>
    /\ last' = Step(t, "restore")
    /\ UNCHANGED <<CLIENTS, udict, kept, stack, exc, seen>>

NextThreads ==
    \E t \in Threads :
        \/ \E m \in Modules : T_Lookup(t, m)
        \/ T_Construct(t)
        \/ T_Store(t)
        \/ T_ReadTags(t)
        \/ T_Copy(t)
        \/ T_Load(t)
        \/ T_Update(t)
        \/ T_GetMethod(t)
        \/ T_Emit(t)
        \/ T_Restore(t)

SpecThreads == InitThreads /\ [][NextThreads]_vars

----------------------------------------------------------------------------
(* Threads with private emitters.  The program holds one parent emitter;   *)
(* before the threads start, the main thread derives one emitter per       *)
(* thread, c_t = parent.with_extra_tags(T); thread t then runs             *)
(*     with c_t.extra_tags(T'): c_t.incr("work")                           *)
(* step by step as above.                                                  *)

Parent == 1

InitPrivate ==
    /\ \E T \in InitTags : heap = << T >>
    /\ objs = << [tags |-> 1, kw |-> <<>>] >>
    /\ CLIENTS = <<>>
    /\ udict = 0
    /\ stack = <<>>
    /\ exc = "none"
    /\ out = <<>>
    /\ last = [op |-> "init"]
    /\ seen = <<>>
    /\ kept = NoMethod
    /\ th = [t \in Threads |-> Idle]

\* c_t = parent.with_extra_tags(T), while no thread has started
T_Derive(t, T) ==
    /\ th[t].pc = "start"
    /\ \A u \in Threads : th[u].pc \in {"start", "got"}
    /\ objs' = Append(objs, [tags |-> all_tags_ref(heap, Parent), kw |-> <<>>])
    /\ heap' = Store(heap, all_tags_ref(heap, Parent), all_tags(Parent, T))
    /\ th' = [th EXCEPT ![t].client = Len(objs) + 1, ![t].pc = "got",
                        ![t].base = all_tags(Parent, T)]
    /\ out' = <<>>
    /\ last' = Step(t, "derive")
    /\ UNCHANGED <<CLIENTS, udict, kept, stack, exc, seen>>

NextPrivate ==
    \E t \in Threads :
        \/ \E T \in TagMaps : T_Derive(t, T)
        \/ T_ReadTags(t)
        \/ T_Copy(t)
        \/ T_Load(t)
        \/ T_Update(t)
        \/ T_GetMethod(t)
        \/ T_Emit(t)
        \/ T_Restore(t)

SpecPrivate == InitPrivate /\ [][NextPrivate]_vars

----------------------------------------------------------------------------
(* Properties *)

ValueOf(d, k) == d[DictGet(d, k)][2]

WithoutKey(d, k) == SelectSeq(d, LAMBDA p : p[1] # k)

\* r is T0 merged with T1: T0's keys keep their places, a key of both takes
\* T1's value, the keys only T1 has follow in T1's order
IsMerged(r, T0, T1) ==
    LET new == SelectSeq(T1, LAMBDA p : p[1] \notin DictKeys(T0))
    IN /\ Len(r) = Len(T0) + Len(new)
       /\ \A i \in DOMAIN T0 :
             /\ r[i][1] = T0[i][1]
             /\ r[i][2] = IF T0[i][1] \in DictKeys(T1)
                          THEN ValueOf(T1, T0[i][1]) ELSE T0[i][2]
       /\ \A i \in DOMAIN new : r[Len(T0) + i] = new[i]

\* op,k1=v1,...,kn=vn,name=<name>: the pairs as they stand, then the name pair
NameLast(op, pairs, name) ==
    IF pairs = <<>> THEN op \o ",name=" \o name
    ELSE op \o "," \o get_tags_string(pairs) \o ",name=" \o name

\* C1: an emission op(name, *args) on an emitter whose Tag Set is
\* k1=v1,...,kn=vn calls the underlying op with the metric name
\* op,k1=v1,...,kn=vn,name=<name>, the name pair last whatever the keys,
\* and with the other arguments unchanged.
C1_NamePairLast ==
    last.op = "emit" =>
        /\ Len(out) = 1
        /\ out[1].op = last.metric
        /\ out[1].args = last.args
        /\ out[1].name = NameLast(last.metric, Tags(last.obj), last.name)

\* C2: a get_client call whose arguments equal those of an earlier call
\* (same service, module and options as a mapping, in whatever order the
\* options are written) returns the instance the earlier call returned and
\* constructs nothing.
C2_EqualArgsSameInstance ==
    (last.op = "get_client" /\ last.ret # 0 /\ last.prev # 0) =>
        /\ last.ret = last.prev
        /\ ~last.built

\* C3, as stated: two get_client calls that differ in any argument, the
\* service included, return distinct instances.
C3_AnyDifferenceDistinct ==
    \A a \in DOMAIN seen, b \in DOMAIN seen :
        a # b => seen[a] # seen[b]

\* C3, amended: two get_client calls that differ in the module or in an
\* option key or value return distinct instances.
C3_ModuleOrOptionsDistinct ==
    \A a \in DOMAIN seen, b \in DOMAIN seen :
        (a[2] # b[2] \/ a[3] # b[3] \/ a[4] # b[4]) => seen[a] # seen[b]

\* two calls differing only in their options got two instances, and a call
\* differing from the first only in the service got the first one's
C3_Witness ==
    \E a \in DOMAIN seen, b \in DOMAIN seen, c \in DOMAIN seen :
        /\ a[2] = b[2] /\ a[3] # b[3] /\ seen[a] # seen[b]
        /\ c[1] # a[1] /\ c[2] = a[2] /\ c[3] = a[3] /\ seen[c] = seen[a]

\* C4: when a region opened with extra_tags(T') has exited, normally or by
\* an exception, the emitter's Tag Set is exactly the one it had when the
\* region was entered; with nested regions, the one at the matching entry.
C4_ScopeRestores ==
    (last.op = "exit" /\ last.kind = "scope") =>
        Tags(last.obj) = last.entry

\* an inner region was left by a failed emission while an outer one, which
\* had changed the Tag Set, stays open
C4_Witness ==
    /\ last.op = "exit" /\ last.kind = "scope" /\ last.how = "raise"
    /\ last.exc = "EmitError"
    /\ Len(stack) = 1
    /\ last.entry # stack[1].entry

\* C5, after a call of with_extra_tags
C5_Result ==
    last.op = "with_extra_tags" =>
        /\ last.ret # last.recv
        /\ objs[last.ret].tags # objs[last.recv].tags
        /\ IsMerged(Tags(last.ret), Tags(last.recv), last.arg)
        /\ last.chained =>
              /\ IsMerged(Tags(last.recv), Tags(last.recv0), last.arg0)
              /\ \A k \in DictKeys(Tags(last.ret)) :
                    ValueOf(Tags(last.ret), k) =
                        IF k \in DictKeys(last.arg) THEN ValueOf(last.arg, k)
                        ELSE IF k \in DictKeys(last.arg0) THEN ValueOf(last.arg0, k)
                        ELSE ValueOf(Tags(last.recv0), k)

\* C5, the step that makes the new instance
C5_Step ==
    Len(objs') = Len(objs) + 1 =>
        \A o \in DOMAIN objs : heap'[objs'[o].tags] = heap[objs[o].tags]

\* C5: e.with_extra_tags(T1) returns a new instance whose Tag Set is e's
\* merged with T1 (T1 wins, new keys last); chained with
\* with_extra_tags(T2) the Tag Set is T0 merged with T1 merged with T2;
\* no call changes the Tag Set of any existing emitter.
C5_Derived == [](C5_Result) /\ [][C5_Step]_vars

\* a chain e -> e1 -> e2 whose three tag mappings share keys
C5_Witness ==
    /\ last.op = "with_extra_tags" /\ last.chained
    /\ DictKeys(last.arg) \cap DictKeys(last.arg0) # {}
    /\ DictKeys(last.arg0) \cap DictKeys(Tags(last.recv0)) # {}
    /\ DictKeys(last.arg) \ DictKeys(Tags(last.recv)) # {}

\* C6, as stated: the calls increment and the duration timer are named
\* by e's Tag Set as of the call, then def=<name of f>, then the
\* decorator's extra_tags (then the class pair the wrapper added, if any),
\* then the name pair.
C6_TagsInClaimedOrder ==
    (last.op = "measure" /\ exc = "none") =>
        LET pairs == last.entry \o << <<"def", last.fn.name>> >> \o last.extra
                     \o SelectSeq(Top.added, LAMBDA p : p[1] = "class")
        IN /\ Len(out) = 2
           /\ out[1].op = "incr" /\ out[1].name = NameLast("incr", pairs, "calls")
           /\ out[2].op = "timer" /\ out[2].name = NameLast("timer", pairs, "duration")

\* C6, amended: each call sends exactly one incr named calls and then one
\* timer named duration, the timer opened before the body starts and
\* closed after it ends; both names are composed from e's Tag Set as of
\* the call merged with the measurement tags (def=<name of f> merged with
\* the decorator's extra_tags, then the class pair if the wrapper adds
\* one): a key already present keeps its place and takes the new value;
\* the wrapper returns f's result unchanged.
C6_MeasuredCall ==
    /\ (last.op = "measure" /\ exc = "none") =>
          /\ IsMerged(WithoutKey(Top.added, "class"),
                      << <<"def", last.fn.name>> >>, last.extra)
          /\ IsMerged(Tags(last.obj), last.entry, Top.added)
          /\ Top.timer
          /\ out = << Sent(last.obj, "incr",
                           get_metric("incr", Tags(last.obj), "calls"), <<>>, TRUE),
                      Sent(last.obj, "timer",
                           get_metric("timer", Tags(last.obj), "duration"), <<>>, TRUE) >>
          /\ Top.tname = out[2].name
    /\ (last.op = "exit" /\ last.kind = "measure" /\ last.how = "return") =>
          /\ out = << TimerClosed(last.obj, last.opened) >>
          /\ last.ret = last.body

\* a measured function with extra_tags is called inside another measured
\* function on an emitter that already carries a def tag
C6_Witness ==
    /\ last.op = "measure" /\ exc = "none"
    /\ Len(stack) = 2
    /\ last.extra # <<>>
    /\ "def" \in DictKeys(stack[1].entry)

\* C7: when the wrapped function raises, the calls increment has been
\* sent, the duration timer block is closed, the emitter's Tag Set is the
\* one before the call and the same exception goes on to the caller.
C7_FailurePropagates ==
    (last.op = "exit" /\ last.kind = "measure" /\ last.how = "raise"
        /\ last.started) =>
        /\ Len(last.sent) = 2
        /\ last.sent[1].op = "incr" /\ last.sent[1].ok
        /\ last.sent[1].name
              = get_metric("incr", DictUpdate(last.entry, last.added), "calls")
        /\ out = << TimerClosed(last.obj, last.opened) >>
        /\ Tags(last.obj) = last.entry
        /\ exc = last.exc
        /\ exc # "none"

\* the body of a measured function raised ValueError and the wrapper was left
C7_Witness ==
    /\ last.op = "exit" /\ last.kind = "measure" /\ last.how = "raise"
    /\ last.started
    /\ last.exc = "ValueError"
    /\ stack = <<>>

\* C8: the measurement tags hold class=<owning type> exactly when the
\* function was defined in a class body whose name differs from the
\* function's name; a plain function never gets a class tag, whatever
\* extra_tags were given.
C8_ClassTagIffMethod ==
    last.op = "measure" =>
        /\ "class" \in DictKeys(Top.added)
              <=> (last.fn.cls # "" /\ last.fn.cls # last.fn.name)
        /\ "class" \in DictKeys(Top.added)
              => ValueOf(Top.added, "class") = last.fn.cls

Returned(t) == th[t].pc \notin {"start", "construct", "store"}

Inside(t) == th[t].pc \in {"load", "update", "body", "send", "restore"}

\* C9: callers racing on one fingerprint are all returned the identical
\* instance, the one the registry holds afterwards.
C9_RaceOneInstance ==
    \A a \in Threads, b \in Threads :
        (Returned(a) /\ Returned(b) /\ th[a].key = th[b].key) =>
            /\ th[a].client = th[b].client
            /\ CLIENTS[th[a].key] = th[a].client

\* the threads that have left a region on instance o
DoneOn(o) == {t \in Threads : th[t].client = o /\ th[t].pc = "done"}

LastOut(o) == CHOOSE t \in DoneOn(o) : \A u \in DoneOn(o) : th[u].exited <= th[t].exited

\* the Tag Set get_client gave the instance of thread t
BaseTags(t) == << <<"module", th[t].module>>, <<"service", ThreadService>> >>

\* C10: with unsynchronized regions on one instance, once every region
\* has exited the Tag Set is the copy taken at entry by the region that
\* exited last, whatever that copy held; so there are interleavings (the
\* witness) after which a tag of the other region stays behind.
C10_LastExitWins ==
    \A o \in DOMAIN objs :
        (DoneOn(o) # {} /\ \A t \in Threads : th[t].client = o => ~Inside(t)) =>
            Tags(o) = th[LastOut(o)].snap

\* both regions on one instance have exited and a scoped tag is still there
C10_Witness ==
    \E a \in Threads, b \in Threads :
        /\ a # b
        /\ th[a].pc = "done" /\ th[b].pc = "done"
        /\ th[a].client = th[b].client
        /\ Tags(th[a].client) # BaseTags(a)
        /\ ThreadTags(a)[1] \in AsMapping(Tags(th[a].client))

\* C11, the states: an emission of a thread is named by the Tag Set its own
\* emitter was derived with merged with the tags of its own region; outside
\* its region the emitter's Tag Set is the derived one.
C11_State ==
    /\ \A t \in Threads :
          /\ (th[t].pc = "restore" /\ out # <<>> /\ out[1].obj = th[t].client) =>
                out[1].name = get_metric("incr",
                                         DictUpdate(th[t].base, ThreadTags(t)),
                                         "work")
          /\ th[t].pc \in {"got", "copy", "done"} =>
                Tags(th[t].client) = th[t].base
    /\ \A a \in Threads, b \in Threads :
          (a # b /\ th[a].client # 0 /\ th[b].client # 0) =>
              /\ th[a].client # th[b].client
              /\ th[a].client # Parent

\* C11, the steps: none changes the parent's Tag Set
C11_Step == heap'[objs'[Parent].tags] = heap[objs[Parent].tags]

\* C11: when every thread works on an emitter derived for it from the
\* shared parent before the threads start, then under every interleaving
\* each emission carries the tags of its own emitter and region only, each
\* derived Tag Set is restored at the exit of its region, and the parent's
\* Tag Set never changes.
C11_PrivateEmitters == [](C11_State) /\ [][C11_Step]_vars

\* a thread has just emitted inside its region while the region of another
\* thread, on its own emitter, is open with its tags merged
C11_Witness ==
    \E a \in Threads, b \in Threads :
        /\ a # b
        /\ th[a].pc = "restore" /\ out # <<>> /\ out[1].obj = th[a].client
        /\ th[b].pc \in {"body", "send", "restore"}
        /\ Tags(th[b].client) # th[b].base

\* C12, the failing step: the constructor's error is the exception in
\* flight, and the registry, the instances and the calls answered so far
\* are what they were before the call
C12_Step ==
    (last'.op = "get_client" /\ last'.ret = 0) =>
        /\ exc = "none" /\ exc' = "CtorError"
        /\ CLIENTS' = CLIENTS
        /\ last'.key \notin DOMAIN CLIENTS'
        /\ objs' = objs
        /\ seen' = seen

\* C12, the call after a failure: it is not answered from the registry
C12_Retry ==
    (last.op = "get_client" /\ last.retry) =>
        /\ last.built \/ (last.ret = 0 /\ exc = "CtorError")
        /\ last.built => CLIENTS[last.key] = last.ret

\* C12: when the constructor fails in a get_client call that missed the
\* cache, the error reaches the caller unchanged, the registry is left as
\* it was, with no entry for the key, and a later call with the same
\* arguments constructs again.
C12_FailedConstruction == [](C12_Retry) /\ [][C12_Step]_vars

\* with one instance in the registry, a call for another key failed, was
\* caught, and the same call made again built the instance
C12_Witness ==
    /\ last.op = "get_client" /\ last.retry /\ last.built
    /\ last.ret = 2
    /\ Cardinality(DOMAIN CLIENTS) = 2

\* C13: no two distinct emitter instances share one Tag Set, however they
\* were built (get_client with or without tags, the constructor given a
\* tags mapping, with_extra_tags), so that a merge done for one is never
\* seen in another.
C13_NoSharedTagSet ==
    \A a \in DOMAIN objs, b \in DOMAIN objs :
        a # b => objs[a].tags # objs[b].tags

\* C14: get_client never mutates the configuration it was passed: after a
\* call (hit, miss or failed construction) the tags mapping the caller
\* gave has the keys and values it had before the call.
C14_CallerTagsUntouched ==
    (last.op = "get_client" /\ last.how = "ref") =>
        {AsMapping(heap[udict])} = last.args[4]

\* the instance was built by get_client(service, module, **kw), no tags given
BuiltFor(i, service, module, kw) ==
    /\ objs[i].kw = kw
    /\ Tags(i) = << <<"module", module>>, <<"service", service>> >>

\* C15, the step of a call that differs only in the service from the call
\* that built instance i: it returns i, builds nothing and leaves the
\* registry and i's Tag Set, its service tag included, as they were
C15_Step ==
    \A i \in DOMAIN objs, s \in Services :
        (/\ last'.op = "get_client"
         /\ s # last'.args[1]
         /\ BuiltFor(i, s, last'.args[2], last'.kw)) =>
            /\ last'.ret = i
            /\ ~last'.built
            /\ exc' = "none"
            /\ CLIENTS' = CLIENTS
            /\ objs' = objs
            /\ heap'[objs'[i].tags] = heap[objs[i].tags]

\* C15: the fingerprint depends on the module and the options only: a
\* get_client call that differs from an earlier one only in the service
\* is a cache hit, returns the earlier instance and leaves the registry
\* and that instance's Tag Set unchanged.
C15_ServiceNotInKey == [][C15_Step]_vars

\* a call with transport options was answered with the instance built for
\* another service
C15_Witness ==
    /\ last.op = "get_client" /\ ~last.built /\ last.ret # 0
    /\ last.kw # <<>>
    /\ ValueOf(Tags(last.ret), "service") # last.args[1]
    /\ Cardinality(DOMAIN CLIENTS) = 2

\* C16: while one region extra_tags(T') is open on emitter e, whose Tag
\* Set was T at entry, every emission through e, whoever holds e, is named
\* by T merged with T' (T' wins on a shared key, which keeps its place;
\* new keys follow T's keys) and then the name pair.
C16_ScopeSeenByAllHolders ==
    (last.op = "emit" /\ Len(stack) = 1 /\ Top.obj = last.obj) =>
        /\ IsMerged(Tags(last.obj), Top.entry, Top.added)
        /\ out[1].name = NameLast(last.metric, Tags(last.obj), last.name)

\* C17: the wrapper passes the emitter as keyword argument statsd exactly
\* when the wrapped function declares a parameter named statsd; a function
\* without such a parameter, whatever its local variables are called, is
\* called with exactly the positional and keyword arguments of the caller.
C17_InjectIffParameter ==
    last.op = "wrapped_call" =>
        /\ last.passed_args = last.args
        /\ IF \E i \in DOMAIN last.fn.params : last.fn.params[i] = "statsd"
           THEN last.passed_kwargs
                   = DictUpdate(last.kwargs,
                                << <<"statsd", ClientValue(last.obj)>> >>)
           ELSE last.passed_kwargs = last.kwargs

\* C18: a kept emission method m = e.incr composes each name from e's Tag
\* Set at the moment m is called, not the moment it was looked up: called
\* after a region has exited, it carries none of the tags of that region.
C18_KeptMethodUsesCurrentTags ==
    last.op = "call_kept" =>
        /\ Len(out) = 1
        /\ out[1].op = last.metric
        /\ out[1].args = last.args
        /\ out[1].name = get_metric(last.metric, Tags(last.obj), last.name)

\* C19, as stated: a measured function g called inside a measured function f on the
\* same emitter is counted and timed under def=<name of g> (g decorated
\* without a def of its own in extra_tags), with a class tag only if the
\* wrapper added one for g itself, then g's own and never the one of f;
\* when g, and later f, has returned, the Tag Set is again the one at the
\* matching entry.
C19_NestedCallOwnTags ==
    /\ (/\ last.op = "measure" /\ exc = "none"
        /\ Len(stack) = 2
        /\ stack[1].kind = "measure" /\ stack[1].obj = last.obj) =>
          /\ "def" \notin DictKeys(last.extra) =>
                ValueOf(Tags(last.obj), "def") = last.fn.name
          /\ "class" \in DictKeys(Tags(last.obj)) =>
                /\ "class" \in DictKeys(Top.added)
                /\ ValueOf(Tags(last.obj), "class") = ValueOf(Top.added, "class")
          /\ out[1].name = get_metric("incr", Tags(last.obj), "calls")
          /\ out[2].name = get_metric("timer", Tags(last.obj), "duration")
    /\ (last.op = "exit" /\ last.kind = "measure") =>
          Tags(last.obj) = last.entry

\* C19, amended: g's calls and duration metrics are named by the Tag Set
\* inside f's region (the one at f's entry merged with f's measurement
\* tags) merged with g's measurement tags: f's def is overwritten in place
\* by g's, and a class tag that g's wrapper does not set itself stays the
\* one already there, f's included; whenever g has returned the Tag Set is
\* again the one of f's region, and after f has returned the one before f.
C19_NestedCallMerged ==
    /\ (/\ last.op = "measure" /\ exc = "none"
        /\ Len(stack) = 2
        /\ stack[1].kind = "measure" /\ stack[1].obj = last.obj) =>
          /\ Top.entry = DictUpdate(stack[1].entry, stack[1].added)
          /\ IsMerged(Tags(last.obj), Top.entry, Top.added)
          /\ ValueOf(Tags(last.obj), "def") = ValueOf(Top.added, "def")
          /\ ("class" \in DictKeys(Top.entry) /\ "class" \notin DictKeys(Top.added))
                => ValueOf(Tags(last.obj), "class") = ValueOf(Top.entry, "class")
          /\ out[1].name = get_metric("incr", Tags(last.obj), "calls")
          /\ out[2].name = get_metric("timer", Tags(last.obj), "duration")
    /\ (stack # <<>> /\ exc = "none") =>
          Tags(Top.obj) = DictUpdate(Top.entry, Top.added)
    /\ (last.op = "exit" /\ last.kind = "measure") =>
          Tags(last.obj) = last.entry

\* a plain function has just been called inside a method of TestClass and
\* its metrics carry class=TestClass
C19_Witness ==
    /\ last.op = "measure" /\ exc = "none"
    /\ Len(stack) = 2
    /\ stack[1].added = measure_tags(FnNamed("wrapped_fn"), << <<"foo", "one">> >>)
    /\ last.fn.cls = ""
    /\ "class" \notin DictKeys(Top.added)
    /\ ValueOf(Tags(last.obj), "class") = "TestClass"
    /\ ValueOf(Tags(last.obj), "def") = last.fn.name

\* C20: the emitter with_extra_tags returns is configured with the
\* transport options (host, port, prefix) of its receiver; only the Tag
\* Set differs between the two.
C20_ChildKeepsTransport ==
    last.op = "with_extra_tags" =>
        AsMapping(objs[last.ret].kw) = AsMapping(objs[last.recv].kw)

====
